---------------------------- MODULE Spec2Model ----------------------------
(***************************************************************************)
(* Azure VM cost comparison: the three paginated fetches (inventory, cost  *)
(* ledger, retail price catalog), the 90-day cost aggregation, the CPU     *)
(* utilization sampler and the join of the four sources, as state          *)
(* machines translated from azure_vm_cost_comparison.py and price_sheet.py.*)
(***************************************************************************)
EXTENDS Integers, Sequences, FiniteSets, TLC

VARIABLES
    fetcher,      \* which paginated fetch runs: "inventory", "cost", "price"
    api,          \* the remote API's pages: [head, tail, endless]
    pc,           \* control point of the running function
    requests,     \* HTTP requests issued so far by the running fetch
    failed,       \* "none", or the kind of failure that ended the fetch
    results,      \* fetch_all_resources: raw items collected
    skip_token,   \* fetch_all_resources: continuation token in hand
    stats,        \* fetch_cost_by_resource: rid -> running totals
    rows_seen,    \* rows handed to process_rows so far, in order
    next_link,    \* fetch_cost_by_resource: next link in hand
    page_count,   \* page counter of the cost / price loop
    cost_out,     \* value returned by fetch_cost_by_resource
    table_data,   \* price_sheet.main: rows collected
    next_page,    \* price_sheet.main: NextPageLink in hand
    resources,        \* the ResourceRecords of the scope, in inventory order
    metric_api,       \* the metrics API's response to each resource's request
    util_idx,         \* fetch_vm_utilization: index of the next resource
    util_pc,          \* fetch_vm_utilization: "idle", "loop" or "done"
    utilization_data, \* fetch_vm_utilization: name.lower() -> sample
    metric_requests,  \* metric requests issued so far
    got429,           \* whether a metric request was answered HTTP 429
    cost_info,        \* join_data: the cost summaries by resource key
    pricing_data,     \* join_data: the price catalog built by format_data
    joined,           \* value returned by join_data
    join_pc,          \* "idle", "pricing", "ready" (join_data not yet called) or "done"
    subscription_id,  \* fetch_all_resources: the identifier it was called with
    inv_out,          \* value returned by fetch_all_resources
    subscriptions,    \* main: the scopes of the run, in input order
    sub_idx,          \* main: index of the next scope
    sub_data,         \* main: scope identifier -> joined records
    main_pc           \* main: "idle", "loop", "after", "report" or "exit"

fetchVars == <<fetcher, api, pc, requests, failed, results, skip_token, stats,
               rows_seen, next_link, page_count, cost_out, table_data, next_page>>

utilVars == <<resources, metric_api, util_idx, util_pc, utilization_data,
              metric_requests, got429>>

joinVars == <<cost_info, pricing_data, joined, join_pc>>

runVars == <<subscription_id, inv_out, subscriptions, sub_idx, sub_data, main_pc>>

scopeVars == <<utilVars, joinVars, runVars>>

vars == <<fetchVars, scopeVars>>

-----------------------------------------------------------------------------
(* Bounds of the model.                                                    *)

\* Mantissa width of the modelled binary floating point (the code's is 53).
MantBits == 8
\* Pages of freely chosen content at the head of a paging scenario.
MaxHeadPages == 2
\* Requests after which the model stops following the inventory loop.
MaxInvRequests == 102
\* Rows of a freely chosen cost ledger, over all its pages.
MaxRows == 3
\* Pages a freely chosen cost ledger is split into.
MaxCostPages == 2
\* Resources of a scope.
MaxResources == 3
\* Data points of a metric time series.
MaxPoints == 2
\* Rows of the retail price catalog.
MaxPriceRows == 3
\* Scopes of a run.
MaxScopes == 2

(* Program constants.                                                      *)
max_pages == 100
FULL_WINDOW_DAYS == 90
MONTHS_IN_WINDOW == 3

-----------------------------------------------------------------------------
(* Generic helpers.                                                        *)

Min(a, b) == IF a < b THEN a ELSE b

SeqsUpTo(S, n) == UNION {[1..k -> S] : k \in 0..n}

RECURSIVE Flatten(_)
Flatten(pages) ==
    IF pages = <<>> THEN <<>> ELSE Head(pages) \o Flatten(Tail(pages))

\* dict[key] = value on a dict modelled as a function
Put(d, k, v) == [x \in DOMAIN d \cup {k} |-> IF x = k THEN v ELSE d[x]]

EmptyDict == [x \in {} |-> 0]

\* str.lower() on the names the model uses
Lower(s) ==
    CASE s = "VM1" -> "vm1"
      [] s = "Unknown" -> "unknown"
      [] OTHER -> s

-----------------------------------------------------------------------------
(* Python floats: binary floating point, round to nearest, ties to even,   *)
(* with a mantissa of MantBits bits.  A float is <<m, e>>, value m * 2^e,  *)
(* with m = 0 or 2^(MantBits-1) <= m < 2^MantBits.                         *)

FZero == <<0, 0>>

RECURSIVE FNorm(_, _, _)
\* the float nearest to (n / d) * 2^e
FNorm(n, d, e) ==
    IF n = 0 THEN FZero
    ELSE IF n < d * 2^(MantBits - 1) THEN FNorm(2 * n, d, e - 1)
    ELSE IF n >= d * 2^MantBits THEN FNorm(n, 2 * d, e + 1)
    ELSE LET q == n \div d
             r == n % d
             up == (2 * r > d) \/ (2 * r = d /\ q % 2 = 1)
             m == IF up THEN q + 1 ELSE q
         IN IF m = 2^MantBits THEN <<2^(MantBits - 1), e + 1>> ELSE <<m, e>>

\* float(k) for an integer k >= 0
FFromInt(k) == FNorm(k, 1, 0)

\* a + b
FAdd(a, b) ==
    LET e0 == Min(a[2], b[2])
    IN FNorm(a[1] * 2^(a[2] - e0) + b[1] * 2^(b[2] - e0), 1, e0)

\* a * k and a / k for an integer k > 0
FMul(a, k) == FNorm(a[1] * k, 1, a[2])
FDiv(a, k) == FNorm(a[1], k, a[2])

\* a > 0
FPos(a) == a[1] > 0

\* a < k and a > k for an integer k >= 0
FLessInt(a, k) ==
    IF a[2] >= 0 THEN a[1] * 2^a[2] < k ELSE a[1] < k * 2^(0 - a[2])
FGreaterInt(a, k) ==
    IF a[2] >= 0 THEN a[1] * 2^a[2] > k ELSE a[1] > k * 2^(0 - a[2])

\* max(a, b)
FMax(a, b) ==
    LET e0 == Min(a[2], b[2])
    IN IF a[1] * 2^(a[2] - e0) >= b[1] * 2^(b[2] - e0) THEN a ELSE b

\* n / d rounded to an integer, ties to even
RoundHalfEven(n, d) ==
    LET q == n \div d
        r == n % d
    IN IF 2 * r > d \/ (2 * r = d /\ q % 2 = 1) THEN q + 1 ELSE q

\* round(a, digits): a as a count of 10^-digits
FRound(a, digits) ==
    IF a[2] >= 0 THEN a[1] * 2^a[2] * 10^digits
    ELSE RoundHalfEven(a[1] * 10^digits, 2^(0 - a[2]))

\* whether float a is exactly the integer k
FIsInt(a, k) ==
    IF a[2] >= 0 THEN a[1] * 2^a[2] = k ELSE a[1] = k * 2^(0 - a[2])

-----------------------------------------------------------------------------
(* Values of JSON fields: <<tag, v>>.                                      *)

Num(v) == <<"num", v>>      \* a JSON number
BadStr == <<"str", 0>>      \* a string that is no number
Null == <<"null", 0>>       \* JSON null / Python None

-----------------------------------------------------------------------------
(* The cost ledger's rows: (cost, date, resource id, ...).  A resource id  *)
(* is its path, split at '/'.                                              *)

Date == <<"date", 0>>

CostRow(cost, id) == <<cost, Date, id>>

RowVM1 == CostRow(Num(1), <<"rg", "VM1">>)
RowBig == CostRow(Num(256), <<"rg", "vm1">>)
RowZero == CostRow(Num(0), <<"rg", "vm1">>)
Row300 == CostRow(Num(300), <<"rg", "vm2">>)
RowBadCost == CostRow(BadStr, <<"rg", "vm2">>)
RowShort == <<Num(1), Date>>
RowNullId == CostRow(Num(1), Null)

CostRowSet == {RowVM1, RowBig, RowZero, Row300, RowBadCost, RowShort, RowNullId}

-----------------------------------------------------------------------------
(* Items of the other two APIs, as far as paging looks at them.            *)

VMItemA == [id |-> "/rg/VM1", name |-> "VM1"]
VMItemB == [id |-> "/rg/vm2", name |-> "vm2"]

\* a row of the retail price catalog
PriceItem(product, tier, type, term, price) ==
    [armRegionName |-> "eastus", armSkuName |-> "D2", productName |-> product,
     skuName |-> tier, type |-> type, reservationTerm |-> term,
     retailPrice |-> <<"num", price>>]

L1Std == PriceItem(<<"Dv3">>, <<"D2", "v3">>, "Consumption", "", 96)
L2Std == PriceItem(<<"DSv3">>, <<"D2", "v3">>, "Consumption", "", 101)
W1Std == PriceItem(<<"Dv3", "Windows">>, <<"D2", "v3">>, "Consumption", "", 188)
W2Std == PriceItem(<<"DSv3", "Windows">>, <<"D2", "v3">>, "Consumption", "", 190)
W1Spot == PriceItem(<<"Dv3", "Windows">>, <<"D2", "v3", "Spot">>, "Consumption", "", 40)
L1Low == PriceItem(<<"Dv3">>, <<"D2", "v3", "Low", "Priority">>, "Consumption", "", 20)
L1Res1 == PriceItem(<<"Dv3">>, <<"D2", "v3">>, "Reservation", "1 Year", 530000)
L1Other == PriceItem(<<"Dv3">>, <<"D2", "v3">>, "SavingsPlan", "", 77)
NoProduct == PriceItem(<<>>, <<"D2", "v3">>, "Consumption", "", 55)

PriceRowSet == {L1Std, L2Std, W1Std, W2Std, W1Spot, L1Low, L1Res1, L1Other, NoProduct}

\* two items of each API, to fill the pages of a paging scenario
SampleItems(f) ==
    CASE f = "inventory" -> <<VMItemA, VMItemB>>
      [] f = "cost" -> <<RowVM1, RowBig>>
      [] f = "price" -> <<L1Std, W1Std>>

\* the item of every page beyond the head
TailItem(f) == SampleItems(f)[1]

-----------------------------------------------------------------------------
(* The remote API: a list of pages.  Page i is head[i] while i is within   *)
(* head, and one TailItem after that; the API offers Len(head) + tail      *)
(* pages, or pages without end.                                            *)

NPages(a) == Len(a.head) + a.tail

Page(a, f, i) == IF i <= Len(a.head) THEN a.head[i] ELSE <<TailItem(f)>>

\* whether the response for page i carries a continuation token / next link
HasNext(a, i) == a.endless \/ i < NPages(a)

\* the items of pages 1..n, in page order
PagesUpTo(a, f, n) == Flatten([i \in 1..n |-> Page(a, f, i)])


-----------------------------------------------------------------------------
(* fetch_cost_by_resource                                                  *)

\* float(cost_raw), with the except branch that makes it 0.0
CostOf(cost_raw) ==
    IF cost_raw[1] = "num" THEN FFromInt(cost_raw[2]) ELSE FZero

\* full_id.split('/')[-1].lower()
RidOf(full_id) == Lower(full_id[Len(full_id)])

\* stats[rid], a defaultdict entry
StatsAt(st, rid) ==
    IF rid \in DOMAIN st THEN st[rid]
    ELSE [total_cost_3m |-> FZero, active_days |-> 0]

\* ProcessRow with the running total assigned instead of added to
ProcessRow_Overwrites(st, row) ==
    IF Len(row) < 3 THEN [ok |-> TRUE, st |-> st]
    ELSE IF row[3] = Null THEN [ok |-> FALSE, st |-> st]
    ELSE LET rid == RidOf(row[3])
             cost == CostOf(row[1])
             old == StatsAt(st, rid)
             new == [total_cost_3m |-> cost,
                     active_days |-> IF FPos(cost) THEN old.active_days + 1
                                     ELSE old.active_days]
         IN [ok |-> TRUE, st |-> Put(st, rid, new)]

\* one iteration of process_rows' loop: [ok, st]; ok = FALSE when the
\* iteration raises an exception that process_rows does not catch
ProcessRow(st, row) ==
    IF Len(row) < 3 THEN [ok |-> TRUE, st |-> st]
    ELSE IF row[3] = Null THEN [ok |-> FALSE, st |-> st]
    ELSE LET rid == RidOf(row[3])
             cost == CostOf(row[1])
             old == StatsAt(st, rid)
             new == [total_cost_3m |-> FAdd(old.total_cost_3m, cost),
                     active_days |-> IF FPos(cost) THEN old.active_days + 1
                                     ELSE old.active_days]
         IN [ok |-> TRUE, st |-> Put(st, rid, new)]

RECURSIVE process_rows(_, _)
process_rows(st, rows) ==
    IF rows = <<>> THEN [ok |-> TRUE, st |-> st]
    ELSE LET one == ProcessRow(st, Head(rows))
         IN IF one.ok THEN process_rows(one.st, Tail(rows)) ELSE one

\* Summary with a resource of exactly 90 active days still counted as new
Summary_InclusiveWindow(s) ==
    LET total == s.total_cost_3m
        avg_monthly == FDiv(total, MONTHS_IN_WINDOW)
    IN [total_cost_3m |-> total,
        active_days |-> s.active_days,
        avg_monthly_cost |-> avg_monthly,
        one_year_est |-> FMul(avg_monthly, 12),
        three_year_est |-> FMul(avg_monthly, 36),
        is_new |-> s.active_days <= FULL_WINDOW_DAYS]

\* the summary of one resource key
Summary(s) ==
    LET total == s.total_cost_3m
        avg_monthly == FDiv(total, MONTHS_IN_WINDOW)
    IN [total_cost_3m |-> total,
        active_days |-> s.active_days,
        avg_monthly_cost |-> avg_monthly,
        one_year_est |-> FMul(avg_monthly, 12),
        three_year_est |-> FMul(avg_monthly, 36),
        is_new |-> s.active_days < FULL_WINDOW_DAYS]

\* the results dict built from stats
Summarize(st) == [rid \in DOMAIN st |-> Summary(st[rid])]

\* the condition of the cost loop's while
CostLoopCond(link, count) == link /\ count < max_pages

FailKinds == {"timeout", "http", "network"}

\* The first request (POST) succeeds: its rows are processed, and the loop
\* is entered or the summaries are returned.
CostFirstOk ==
    /\ fetcher = "cost" /\ pc = "first"
    /\ LET rows == Page(api, "cost", 1)
           pr == process_rows(stats, rows)
           link == HasNext(api, 1)
       IN /\ requests' = requests + 1
          /\ rows_seen' = rows_seen \o rows
          /\ IF ~pr.ok
             THEN /\ pc' = "raised"
                  /\ UNCHANGED <<stats, next_link, page_count, cost_out>>
             ELSE /\ stats' = pr.st
                  /\ next_link' = link
                  /\ page_count' = 1
                  /\ IF CostLoopCond(link, 1)
                     THEN pc' = "loop" /\ UNCHANGED cost_out
                     ELSE pc' = "done" /\ cost_out' = Summarize(pr.st)
    /\ UNCHANGED scopeVars
    /\ UNCHANGED <<fetcher, api, failed, results, skip_token, table_data, next_page>>

\* The first request fails: the empty dict is returned.
CostFirstFail ==
    /\ fetcher = "cost" /\ pc = "first"
    /\ \E kind \in FailKinds : failed' = kind
    /\ requests' = requests + 1
    /\ pc' = "done"
    /\ cost_out' = EmptyDict
    /\ UNCHANGED scopeVars
    /\ UNCHANGED <<fetcher, api, results, skip_token, stats, rows_seen,
                   next_link, page_count, table_data, next_page>>

\* One pass of the while loop whose GET succeeds.
CostNextOk ==
    /\ fetcher = "cost" /\ pc = "loop"
    /\ LET rows == Page(api, "cost", page_count + 1)
           pr == process_rows(stats, rows)
           link == HasNext(api, page_count + 1)
       IN /\ requests' = requests + 1
          /\ rows_seen' = rows_seen \o rows
          /\ IF ~pr.ok
             THEN /\ pc' = "raised"
                  /\ UNCHANGED <<stats, next_link, page_count, cost_out>>
             ELSE /\ stats' = pr.st
                  /\ next_link' = link
                  /\ page_count' = page_count + 1
                  /\ IF CostLoopCond(link, page_count + 1)
                     THEN pc' = "loop" /\ UNCHANGED cost_out
                     ELSE pc' = "done" /\ cost_out' = Summarize(pr.st)
    /\ UNCHANGED scopeVars
    /\ UNCHANGED <<fetcher, api, failed, results, skip_token, table_data, next_page>>

\* CostNextFail without the break: the loop goes on after the failure
CostNextFail_Retries ==
    /\ fetcher = "cost" /\ pc = "loop"
    /\ \E kind \in FailKinds : failed' = kind
    /\ requests' = requests + 1
    /\ pc' = "loop"
    /\ UNCHANGED scopeVars
    /\ UNCHANGED <<fetcher, api, results, skip_token, stats, rows_seen,
                   next_link, page_count, table_data, next_page, cost_out>>

\* One pass of the while loop whose GET fails: break, then the summaries.
CostNextFail ==
    /\ fetcher = "cost" /\ pc = "loop"
    /\ \E kind \in FailKinds : failed' = kind
    /\ requests' = requests + 1
    /\ pc' = "done"
    /\ cost_out' = Summarize(stats)
    /\ UNCHANGED scopeVars
    /\ UNCHANGED <<fetcher, api, results, skip_token, stats, rows_seen,
                   next_link, page_count, table_data, next_page>>

-----------------------------------------------------------------------------
(* price_sheet.main                                                        *)

\* build_pricing_json
build_pricing_json(items, table) == IF items # <<>> THEN table \o items ELSE table

PriceLoopCond(link, count) == link /\ count < max_pages

PriceFirstOk ==
    /\ fetcher = "price" /\ pc = "first"
    /\ requests' = requests + 1
    /\ table_data' = build_pricing_json(Page(api, "price", 1), table_data)
    /\ next_page' = HasNext(api, 1)
    /\ page_count' = 1
    /\ pc' = IF PriceLoopCond(HasNext(api, 1), 1) THEN "loop" ELSE "done"
    /\ UNCHANGED scopeVars
    /\ UNCHANGED <<fetcher, api, failed, results, skip_token, stats, rows_seen,
                   next_link, cost_out>>

\* The first request fails, or its body is no JSON: [] is returned.
PriceFirstFail ==
    /\ fetcher = "price" /\ pc = "first"
    /\ \E kind \in FailKinds \cup {"json"} : failed' = kind
    /\ requests' = requests + 1
    /\ pc' = "done"
    /\ table_data' = <<>>
    /\ UNCHANGED scopeVars
    /\ UNCHANGED <<fetcher, api, results, skip_token, stats, rows_seen,
                   next_link, page_count, cost_out, next_page>>

PriceNextOk ==
    /\ fetcher = "price" /\ pc = "loop"
    /\ requests' = requests + 1
    /\ next_page' = HasNext(api, page_count + 1)
    /\ table_data' = build_pricing_json(Page(api, "price", page_count + 1), table_data)
    /\ page_count' = page_count + 1
    /\ pc' = IF PriceLoopCond(HasNext(api, page_count + 1), page_count + 1)
             THEN "loop" ELSE "done"
    /\ UNCHANGED scopeVars
    /\ UNCHANGED <<fetcher, api, failed, results, skip_token, stats, rows_seen,
                   next_link, cost_out>>

\* A later request fails: break, and the rows so far are returned.
PriceNextFail ==
    /\ fetcher = "price" /\ pc = "loop"
    /\ \E kind \in FailKinds \cup {"json"} : failed' = kind
    /\ requests' = requests + 1
    /\ pc' = "done"
    /\ UNCHANGED scopeVars
    /\ UNCHANGED <<fetcher, api, results, skip_token, stats, rows_seen,
                   next_link, page_count, cost_out, table_data, next_page>>

-----------------------------------------------------------------------------
(* fetch_all_resources: the while True loop                                *)

\* One pass whose request (GET, or POST with the skip token) succeeds.
InvRequestOk ==
    /\ fetcher = "inventory" /\ pc = "loop"
    /\ requests < MaxInvRequests
    /\ requests' = requests + 1
    /\ results' = results \o Page(api, "inventory", requests + 1)
    /\ skip_token' = HasNext(api, requests + 1)
    /\ pc' = IF HasNext(api, requests + 1) THEN "loop" ELSE "done"
    /\ UNCHANGED scopeVars
    /\ UNCHANGED <<fetcher, api, failed, stats, rows_seen, next_link, page_count,
                   cost_out, table_data, next_page>>

\* One pass whose request fails: [], [], [] is returned.
InvRequestFail ==
    /\ fetcher = "inventory" /\ pc = "loop"
    /\ requests < MaxInvRequests
    /\ \E kind \in FailKinds : failed' = kind
    /\ requests' = requests + 1
    /\ results' = <<>>
    /\ pc' = "done"
    /\ UNCHANGED scopeVars
    /\ UNCHANGED <<fetcher, api, skip_token, stats, rows_seen, next_link,
                   page_count, cost_out, table_data, next_page>>

-----------------------------------------------------------------------------
(* Specifications of the paginated fetches.                                *)

\* the locals of the three fetch functions at their entry
FetchEntry(f) ==
    /\ fetcher = f
    /\ pc = CASE f = "inventory" -> "loop"
              [] f = "none" -> "idle"
              [] OTHER -> "first"
    /\ requests = 0
    /\ failed = "none"
    /\ results = <<>>
    /\ skip_token = FALSE
    /\ stats = EmptyDict
    /\ rows_seen = <<>>
    /\ next_link = FALSE
    /\ page_count = 0
    /\ cost_out = EmptyDict
    /\ table_data = <<>>
    /\ next_page = FALSE

\* no scope is being sampled or joined
ScopeIdle ==
    /\ resources = <<>>
    /\ metric_api = <<>>
    /\ util_idx = 0
    /\ util_pc = "idle"
    /\ utilization_data = EmptyDict
    /\ metric_requests = 0
    /\ got429 = FALSE
    /\ cost_info = EmptyDict
    /\ pricing_data = EmptyDict
    /\ joined = <<>>
    /\ join_pc = "idle"

\* what fetch_all_resources returns when it has nothing: [], [], []
EmptyResult == [resources |-> <<>>, skus |-> <<>>, regions |-> <<>>]

\* main is not running
RunIdle ==
    /\ subscription_id = <<>>
    /\ inv_out = EmptyResult
    /\ subscriptions = <<>>
    /\ sub_idx = 0
    /\ sub_data = EmptyDict
    /\ main_pc = "idle"

\* no fetch is running
FetchIdle ==
    /\ FetchEntry("none")
    /\ api = [head |-> <<>>, tail |-> 0, endless |-> FALSE]

\* the pages a paging scenario may start with
SamplePages(f) ==
    {<<>>, <<SampleItems(f)[1]>>, <<SampleItems(f)[1], SampleItems(f)[2]>>}

\* the lengths of the run of pages that follows the head
TailLens == {0, 1, 98, 99, 100}

\* Every fetch against an API of a few free pages followed by a long run.
InitPaging ==
    /\ ScopeIdle
    /\ RunIdle
    /\ \E f \in {"inventory", "cost", "price"} :
          /\ FetchEntry(f)
          /\ \E h \in SeqsUpTo(SamplePages(f), MaxHeadPages), t \in TailLens,
                en \in BOOLEAN :
                /\ Len(h) + t >= 1
                /\ api = [head |-> h, tail |-> t, endless |-> en]

NextPaging ==
    \/ InvRequestOk \/ InvRequestFail
    \/ CostFirstOk \/ CostFirstFail \/ CostNextOk \/ CostNextFail
    \/ PriceFirstOk \/ PriceFirstFail \/ PriceNextOk \/ PriceNextFail

SpecPaging == InitPaging /\ [][NextPaging]_vars

-----------------------------------------------------------------------------
(* Properties of the paginated fetches.                                    *)

\* the items the running fetch has collected, in the order it took them
Collected ==
    CASE fetcher = "inventory" -> results
      [] fetcher = "cost" -> rows_seen
      [] fetcher = "price" -> table_data

\* the page a fetch is to stop at: the first page without a continuation
\* token, or page 100, whichever comes first
StopPage == IF api.endless THEN max_pages ELSE Min(NPages(api), max_pages)

\* C1: while every page response succeeds, each of the three fetches issues
\* no request beyond the first page without a continuation token or page
\* 100, whichever comes first, and ends having collected exactly the items
\* of the pages up to that page, in page order.
C1_CollectsPagesInOrderAndStops ==
    failed = "none" =>
        /\ requests <= StopPage
        /\ pc = "done" =>
              /\ requests = StopPage
              /\ Collected = PagesUpTo(api, fetcher, StopPage)

\* C2: every paginated fetch, the inventory fetch included, issues at most
\* 100 page requests, also when every response carries a continuation token.
C2_AtMostHundredRequests == requests <= max_pages

\* the same two statements of the cost and price fetches alone
PagingOfCappedFetches ==
    fetcher # "inventory" =>
        C1_CollectsPagesInOrderAndStops /\ C2_AtMostHundredRequests

\* a timeout or a network error, as opposed to an HTTP status or a bad body
TransportFailures == {"timeout", "network"}

\* what a fetch whose latest request failed has returned: the empty result,
\* or the result built from the pages of the requests before (for the cost
\* fetch: the summaries of the totals, the rows that went into the totals
\* being those of the pages before; the summaries are computed anew from
\* those rows for a failure within the freely chosen pages or just after)
ReturnedOnFailure ==
    CASE fetcher = "inventory" -> results = <<>>
      [] fetcher = "cost" ->
            /\ rows_seen = PagesUpTo(api, "cost", requests - 1)
            /\ cost_out = Summarize(stats)
            /\ requests - 1 <= Len(api.head) + 1 =>
                  cost_out = Summarize(process_rows(EmptyDict, rows_seen).st)
      [] fetcher = "price" -> table_data = PagesUpTo(api, "price", requests - 1)

\* C19: the step in which a page request of one of the three fetches fails
\* with a timeout or a network error ends the fetch, which has returned the
\* empty result or the result of the pages fetched before; no step after it
\* issues a request.
C19_FailureEndsTheFetch ==
    /\ [](failed \in TransportFailures => (pc = "done" /\ ReturnedOnFailure))
    /\ [][/\ failed' \in TransportFailures => pc' = "done"
          /\ failed \in TransportFailures => requests' = requests]_vars

\* the third request of the cost fetch timed out and the summaries of the
\* first two pages were returned
C19_Witness ==
    /\ fetcher = "cost" /\ failed = "timeout" /\ pc = "done"
    /\ requests = 3 /\ page_count = 2
    /\ DOMAIN cost_out # {}

-----------------------------------------------------------------------------
(* Specification of the cost aggregation.                                  *)

\* ledger cut into Len(cuts) + 1 pages at the positions cuts
Split(ledger, cuts) ==
    [j \in 1..(Len(cuts) + 1) |->
        SubSeq(ledger,
               (IF j = 1 THEN 0 ELSE cuts[j - 1]) + 1,
               IF j = Len(cuts) + 1 THEN Len(ledger) ELSE cuts[j])]

\* every way of cutting ledger into 1..MaxCostPages pages, empty ones included
Splits(ledger) ==
    {Split(ledger, cuts) :
        cuts \in {c \in SeqsUpTo(0..Len(ledger), MaxCostPages - 1) :
                     \A j \in 1..(Len(c) - 1) : c[j] <= c[j + 1]}}

\* the lengths of a long ledger of one row a page: around the 90 days of the
\* window and around the page cap
CostTailLens ==
    {FULL_WINDOW_DAYS - 1, FULL_WINDOW_DAYS, max_pages, max_pages + 1}

\* The cost fetch against every short ledger in every split, and against
\* long ledgers of one row a page.
InitCost ==
    /\ ScopeIdle
    /\ RunIdle
    /\ FetchEntry("cost")
    /\ \/ \E ledger \in SeqsUpTo(CostRowSet, MaxRows) :
             \E h \in Splits(ledger) :
                api = [head |-> h, tail |-> 0, endless |-> FALSE]
       \/ \E h \in {<<>>, <<<<Row300>>>>}, t \in CostTailLens :
             api = [head |-> h, tail |-> t, endless |-> FALSE]

NextCost == CostFirstOk \/ CostFirstFail \/ CostNextOk \/ CostNextFail

SpecCost == InitCost /\ [][NextCost]_vars

-----------------------------------------------------------------------------
(* Properties of the cost aggregation.                                     *)

\* whether a row is aggregated under resource key k
RowOfKey(row, k) == Len(row) >= 3 /\ row[3] # Null /\ RidOf(row[3]) = k

KeysOf(rows) ==
    {RidOf(rows[i][3]) : i \in {j \in 1..Len(rows) :
                                   Len(rows[j]) >= 3 /\ rows[j][3] # Null}}

\* the numeric cost of a row, 0 when it has none
IntCost(row) == IF row[1][1] = "num" THEN row[1][2] ELSE 0

RECURSIVE FloatSum(_, _, _)
\* the floating-point sum of the costs of key k's rows, added to acc one by
\* one in the order of rows
FloatSum(acc, k, rows) ==
    IF rows = <<>> THEN acc
    ELSE FloatSum(IF RowOfKey(Head(rows), k)
                  THEN FAdd(acc, FFromInt(IntCost(Head(rows)))) ELSE acc,
                  k, Tail(rows))

\* the days on which key k's cost was strictly positive: one row a day
ActiveDays(k, rows) ==
    Cardinality({i \in 1..Len(rows) : RowOfKey(rows[i], k) /\ IntCost(rows[i]) > 0})

\* all rows of all pages the API offers
OfferedRows == PagesUpTo(api, "cost", NPages(api))

\* the rows of the pages the fetch received
FetchedRows == PagesUpTo(api, "cost", page_count)

\* the orders the same rows can arrive in: every permutation of a short
\* ledger; a long one as it is and reversed
Orderings(rows) ==
    IF Len(rows) <= MaxRows
    THEN {[i \in 1..Len(rows) |-> rows[p[i]]] :
             p \in {q \in [1..Len(rows) -> 1..Len(rows)] :
                       \A i, j \in 1..Len(rows) : i # j => q[i] # q[j]}}
    ELSE {rows, [i \in 1..Len(rows) |-> rows[Len(rows) + 1 - i]]}

\* C3 as stated: the total of every resource key is the sum of the costs of
\* all of its rows over all pages the API offers, whatever the order the
\* rows are summed in.
C3_TotalIsSumOverAllOfferedPages ==
    (pc = "done" /\ failed = "none") =>
        /\ DOMAIN cost_out = KeysOf(OfferedRows)
        /\ \A k \in DOMAIN cost_out : \A rows \in Orderings(OfferedRows) :
              cost_out[k].total_cost_3m = FloatSum(FZero, k, rows)

\* C3 amended: the total of every resource key is the floating-point sum,
\* taken in arrival order, of the costs of its rows over the pages fetched,
\* which are the first 100 pages at most when no request fails; it depends
\* on the sequence of rows only, not on where the pages are cut.
C3_TotalIsFloatSumOverFetchedPages ==
    pc = "done" =>
        /\ failed = "none" => page_count = StopPage
        /\ DOMAIN cost_out = KeysOf(FetchedRows)
        /\ \A k \in DOMAIN cost_out :
              cost_out[k].total_cost_3m = FloatSum(FZero, k, FetchedRows)

\* a ledger of several pages has been aggregated into a non-zero total
C3_Witness ==
    /\ pc = "done" /\ failed = "none" /\ page_count >= 2
    /\ \E k \in DOMAIN cost_out : FPos(cost_out[k].total_cost_3m)

\* C4: in every summary, is_new holds exactly when the resource has fewer
\* than 90 active days, avg_monthly_cost is the total divided by 3, and the
\* one- and three-year estimates are 12 and 36 times avg_monthly_cost; a
\* total of 300 gives 100, 1200 and 3600.
C4_SummaryFields ==
    pc = "done" =>
        \A k \in DOMAIN cost_out :
            LET s == cost_out[k]
            IN /\ s.active_days = ActiveDays(k, FetchedRows)
               /\ s.is_new <=> (s.active_days < 90)
               /\ s.avg_monthly_cost = FDiv(s.total_cost_3m, 3)
               /\ s.one_year_est = FMul(s.avg_monthly_cost, 12)
               /\ s.three_year_est = FMul(s.avg_monthly_cost, 36)
               /\ FIsInt(s.total_cost_3m, 300) =>
                     /\ FIsInt(s.avg_monthly_cost, 100)
                     /\ FIsInt(s.one_year_est, 1200)
                     /\ FIsInt(s.three_year_est, 3600)

\* one resource with a total of 300 is new, another with 90 active days is not
C4_Witness ==
    /\ pc = "done"
    /\ \E k1, k2 \in DOMAIN cost_out :
          /\ FIsInt(cost_out[k1].total_cost_3m, 300) /\ cost_out[k1].is_new
          /\ cost_out[k2].active_days = 90 /\ ~cost_out[k2].is_new

\* C16: a cost row with fewer than 3 fields, with a non-numeric cost or with
\* a null resource id adds nothing to any total or active-day count and
\* never ends the aggregation: process_rows raises nothing, and the totals
\* and active days returned are those of the other rows of the pages fetched.
C16_MalformedRowsNeverAbort ==
    /\ pc # "raised"
    /\ pc = "done" =>
          \A k \in DOMAIN cost_out :
              /\ cost_out[k].total_cost_3m = FloatSum(FZero, k, FetchedRows)
              /\ cost_out[k].active_days = ActiveDays(k, FetchedRows)

-----------------------------------------------------------------------------
(* ResourceRecords, as fetch_all_resources formats them: a missing id is   *)
(* "", a missing name "Unknown", any other missing field "N/A".            *)

ResA == [id |-> "/rg/VM1", name |-> "VM1", location |-> "eastus",
         vmSize |-> "D2", osType |-> "Linux"]
ResB == [id |-> "/rg/vm2", name |-> "vm2", location |-> "eastus",
         vmSize |-> "D2", osType |-> "Windows"]
ResC == [id |-> "", name |-> "Unknown", location |-> "eastus",
         vmSize |-> "D2", osType |-> "N/A"]
ResD == [id |-> "/rg/vm3", name |-> "vm3", location |-> "N/A",
         vmSize |-> "N/A", osType |-> "Linux"]

ResourceSet == {ResA, ResB, ResC, ResD}

-----------------------------------------------------------------------------
(* fetch_vm_utilization                                                    *)

\* the response body's shapes
NoMetrics == [value |-> <<>>]
NoSeries == [value |-> <<[timeseries |-> <<>>]>>]
NoData == [value |-> <<[timeseries |-> <<[data |-> <<>>]>>]>>]
WithData(points) == [value |-> <<[timeseries |-> <<[data |-> points]>>]>>]

\* NoneSample with zeros in the place of the missing numbers
NoneSample_Zeros(recommendation) ==
    [avg_cpu |-> Num(0), peak_cpu |-> Num(0), recommendation |-> recommendation]

\* the three sample records without numbers
NoneSample(recommendation) ==
    [avg_cpu |-> Null, peak_cpu |-> Null, recommendation |-> recommendation]

HasAverage(d) == d.average # Null
HasMaximum(d) == d.maximum # Null

\* avg_values and max_values, as floats
AvgValues(points) ==
    LET kept == SelectSeq(points, HasAverage)
    IN [i \in 1..Len(kept) |-> FFromInt(kept[i].average[2])]
MaxValues(points) ==
    LET kept == SelectSeq(points, HasMaximum)
    IN [i \in 1..Len(kept) |-> FFromInt(kept[i].maximum[2])]

RECURSIVE FSumList(_, _)
\* sum(values), added up from the left
FSumList(acc, values) ==
    IF values = <<>> THEN acc ELSE FSumList(FAdd(acc, Head(values)), Tail(values))

RECURSIVE FMaxList(_, _)
FMaxList(acc, values) ==
    IF values = <<>> THEN acc ELSE FMaxList(FMax(acc, Head(values)), Tail(values))

\* avg_cpu and peak_cpu of data points with at least one average
AvgCpu(points) == FDiv(FSumList(FZero, AvgValues(points)), Len(AvgValues(points)))
PeakCpu(points) ==
    IF MaxValues(points) # <<>>
    THEN FMaxList(Head(MaxValues(points)), Tail(MaxValues(points)))
    ELSE AvgCpu(points)

\* Classify with the two low-utilization tests in the other order
Classify_LowFirst(avg_cpu, peak_cpu) ==
    IF FLessInt(avg_cpu, 20) /\ FLessInt(peak_cpu, 50) THEN "Low utilization"
    ELSE IF FLessInt(avg_cpu, 10) /\ FLessInt(peak_cpu, 30) THEN "Very low utilization"
    ELSE IF FGreaterInt(avg_cpu, 70) \/ FGreaterInt(peak_cpu, 90) THEN "High utilization"
    ELSE "Normal"

\* the if / elif chain that sets recommendation (the code's strings carry a
\* leading symbol, left out here)
Classify(avg_cpu, peak_cpu) ==
    IF FLessInt(avg_cpu, 10) /\ FLessInt(peak_cpu, 30) THEN "Very low utilization"
    ELSE IF FLessInt(avg_cpu, 20) /\ FLessInt(peak_cpu, 50) THEN "Low utilization"
    ELSE IF FGreaterInt(avg_cpu, 70) \/ FGreaterInt(peak_cpu, 90) THEN "High utilization"
    ELSE "Normal"

\* the sample made of a successful response
SampleOf(body) ==
    IF body.value = <<>> THEN NoneSample("No metrics available")
    ELSE LET timeseries == body.value[1].timeseries
         IN IF timeseries = <<>> \/ timeseries[1].data = <<>>
            THEN NoneSample("No data points")
            ELSE LET data_points == timeseries[1].data
                 IN IF AvgValues(data_points) = <<>>
                    THEN NoneSample("No data points")
                    ELSE [avg_cpu |-> Num(FRound(AvgCpu(data_points), 1)),
                          peak_cpu |-> Num(FRound(PeakCpu(data_points), 1)),
                          recommendation |->
                              Classify(AvgCpu(data_points), PeakCpu(data_points))]

\* OnHTTPError with HTTP 429 handled like any other status
OnHTTPError_NoBreak(status, data, key) ==
    [stop |-> FALSE, data |-> Put(data, key, NoneSample("Error"))]

\* the except HTTPError clause: [stop, data]; stop is the loop's break
OnHTTPError(status, data, key) ==
    IF status = 429 THEN [stop |-> TRUE, data |-> data]
    ELSE [stop |-> FALSE, data |-> Put(data, key, NoneSample("Error"))]

\* where the for loop stands after the iteration at util_idx
AfterIteration(stop) ==
    /\ util_idx' = util_idx + 1
    /\ util_pc' = IF stop \/ util_idx = Len(resources) THEN "done" ELSE "loop"

InLoop == util_pc = "loop" /\ util_idx \in 1..Len(resources)

\* An iteration for a resource without id: continue, no request.
SampleSkip ==
    /\ InLoop
    /\ resources[util_idx].id = ""
    /\ AfterIteration(FALSE)
    /\ UNCHANGED <<resources, metric_api, utilization_data, metric_requests, got429>>
    /\ UNCHANGED <<fetchVars, joinVars, runVars>>

\* An iteration whose request succeeds.
SampleOk ==
    /\ InLoop
    /\ resources[util_idx].id # ""
    /\ metric_api[util_idx].kind = "ok"
    /\ metric_requests' = metric_requests + 1
    /\ utilization_data' = Put(utilization_data, Lower(resources[util_idx].name),
                               SampleOf(metric_api[util_idx].body))
    /\ AfterIteration(FALSE)
    /\ UNCHANGED <<resources, metric_api, got429>>
    /\ UNCHANGED <<fetchVars, joinVars, runVars>>

\* An iteration whose request times out.
SampleTimeout ==
    /\ InLoop
    /\ resources[util_idx].id # ""
    /\ metric_api[util_idx].kind = "timeout"
    /\ metric_requests' = metric_requests + 1
    /\ utilization_data' = Put(utilization_data, Lower(resources[util_idx].name),
                               NoneSample("Timeout"))
    /\ AfterIteration(FALSE)
    /\ UNCHANGED <<resources, metric_api, got429>>
    /\ UNCHANGED <<fetchVars, joinVars, runVars>>

\* An iteration whose request is answered with an HTTP error status.
SampleHTTPError ==
    /\ InLoop
    /\ resources[util_idx].id # ""
    /\ metric_api[util_idx].kind = "http"
    /\ metric_requests' = metric_requests + 1
    /\ got429' = (got429 \/ metric_api[util_idx].status = 429)
    /\ LET r == OnHTTPError(metric_api[util_idx].status, utilization_data,
                            Lower(resources[util_idx].name))
       IN /\ utilization_data' = r.data
          /\ AfterIteration(r.stop)
    /\ UNCHANGED <<resources, metric_api>>
    /\ UNCHANGED <<fetchVars, joinVars, runVars>>

\* An iteration that raises any other exception.
SampleException ==
    /\ InLoop
    /\ resources[util_idx].id # ""
    /\ metric_api[util_idx].kind = "exception"
    /\ metric_requests' = metric_requests + 1
    /\ utilization_data' = Put(utilization_data, Lower(resources[util_idx].name),
                               NoneSample("Error"))
    /\ AfterIteration(FALSE)
    /\ UNCHANGED <<resources, metric_api, got429>>
    /\ UNCHANGED <<fetchVars, joinVars, runVars>>

-----------------------------------------------------------------------------
(* Python dicts that are iterated: a sequence of <<key, value>> pairs in   *)
(* insertion order.  Names that are searched for a word are sequences of   *)
(* words.                                                                  *)

OdHas(od, k) == \E i \in 1..Len(od) : od[i][1] = k

OdGet(od, k) == od[CHOOSE i \in 1..Len(od) : od[i][1] = k][2]

OdPut(od, k, v) ==
    IF OdHas(od, k)
    THEN [i \in 1..Len(od) |-> IF od[i][1] = k THEN <<k, v>> ELSE od[i]]
    ELSE Append(od, <<k, v>>)

\* pat in name
Contains(name, pat) ==
    \E i \in 1..(Len(name) - Len(pat) + 1) : SubSeq(name, i, i + Len(pat) - 1) = pat

\* d.get(k, default) on a dict modelled as a function
Get(d, k, default) == IF k \in DOMAIN d THEN d[k] ELSE default

-----------------------------------------------------------------------------
(* price_sheet.format_data.  A retail price is a count of thousandths of   *)
(* the currency unit; a formatted amount <<"str", c>> is the string that   *)
(* shows c hundredths with two decimals.                                   *)

NA == <<"na", 0>>               \* the string "N/A"
Formatted(c) == <<"str", c>>

\* the entry of a (region, size, product, tier) cell after one more item
Route(sku_entry, item) ==
    CASE item.type = "Consumption" ->
            IF item.retailPrice[1] = "num"
            THEN Put(Put(Put(sku_entry, "payg", item.retailPrice),
                         "payg1Month",
                         Formatted(RoundHalfEven(item.retailPrice[2] * 24 * 31, 10))),
                     "payg1Year",
                     Formatted(RoundHalfEven(item.retailPrice[2] * 24 * 365, 10)))
            ELSE Put(sku_entry, "payg", item.retailPrice)
      [] item.type = "DevTestConsumption" ->
            Put(sku_entry, "devtest", item.retailPrice)
      [] item.type = "Reservation" ->
            IF item.reservationTerm = "1 Year"
            THEN Put(sku_entry, "1year", item.retailPrice)
            ELSE IF item.reservationTerm = "3 Years"
            THEN Put(sku_entry, "3year", item.retailPrice)
            ELSE sku_entry
      [] OTHER -> sku_entry

\* one pass of format_data's loop
FormatItem(data_dict, item) ==
    IF item.armRegionName = "" \/ item.armSkuName = ""
       \/ item.productName = <<>> \/ item.skuName = <<>>
    THEN data_dict
    ELSE LET by_sku == Get(data_dict, item.armRegionName, EmptyDict)
             products == Get(by_sku, item.armSkuName, <<>>)
             tiers == IF OdHas(products, item.productName)
                      THEN OdGet(products, item.productName) ELSE <<>>
             sku_entry == IF OdHas(tiers, item.skuName)
                          THEN OdGet(tiers, item.skuName) ELSE EmptyDict
         IN Put(data_dict, item.armRegionName,
                Put(by_sku, item.armSkuName,
                    OdPut(products, item.productName,
                          OdPut(tiers, item.skuName, Route(sku_entry, item)))))

RECURSIVE FormatFrom(_, _)
FormatFrom(data_dict, data) ==
    IF data = <<>> THEN data_dict
    ELSE FormatFrom(FormatItem(data_dict, Head(data)), Tail(data))

format_data(data) == FormatFrom(EmptyDict, data)

-----------------------------------------------------------------------------
(* join_data                                                               *)

\* the summary of a resource the cost map does not hold
DefaultCost ==
    [total_cost_3m |-> FZero, active_days |-> 0, avg_monthly_cost |-> FZero,
     one_year_est |-> FZero, three_year_est |-> FZero, is_new |-> TRUE]

\* the fields every record starts with
BaseFields(r, c) ==
    [name |-> r.name, region |-> r.location, vmSize |-> r.vmSize,
     osType |-> r.osType,
     total_cost_3m |-> Num(FRound(c.total_cost_3m, 2)),
     avg_monthly_cost |-> Num(FRound(c.avg_monthly_cost, 2)),
     one_year_est |-> Num(FRound(c.one_year_est, 2)),
     three_year_est |-> Num(FRound(c.three_year_est, 2)),
     is_new |-> c.is_new]

\* the fields added under `if utilization_data:`
UtilFields(r, utilization) ==
    IF DOMAIN utilization = {} THEN EmptyDict
    ELSE LET u == Get(utilization, Lower(r.name), NoneSample("N/A"))
         IN [avg_cpu |-> u.avg_cpu, peak_cpu |-> u.peak_cpu,
             utilization_status |-> u.recommendation]

None == <<>>

RECURSIVE FindSeries(_, _, _)
\* the loop over pricing_by_sku.items(): <<linux_series, windows_series>>
FindSeries(products, linux_series, windows_series) ==
    IF products = <<>> THEN <<linux_series, windows_series>>
    ELSE LET product_name == Head(products)[1]
         IN IF ~Contains(product_name, <<"Windows">>) /\ linux_series = None
            THEN FindSeries(Tail(products), Head(products), windows_series)
            ELSE IF Contains(product_name, <<"Windows">>) /\ windows_series = None
            THEN FindSeries(Tail(products), linux_series, Head(products))
            ELSE FindSeries(Tail(products), linux_series, windows_series)

\* SelectSeries without the test of the resource's OS
SelectSeries_IgnoresOs(osType, linux_series, windows_series) ==
    IF linux_series # None THEN linux_series ELSE windows_series

\* selected_series
SelectSeries(osType, linux_series, windows_series) ==
    IF osType = "Linux" /\ linux_series # None THEN linux_series
    ELSE IF osType = "Windows" /\ windows_series # None THEN windows_series
    ELSE IF linux_series # None THEN linux_series ELSE windows_series

IsStandard(sku_name) ==
    ~Contains(sku_name, <<"Spot">>) /\ ~Contains(sku_name, <<"Low", "Priority">>)
IsSpot(sku_name) == Contains(sku_name, <<"Spot">>)
IsLowPriority(sku_name) == Contains(sku_name, <<"Low", "Priority">>)

\* the test of the loop for one purpose
TierMatches(purpose, sku_name) ==
    CASE purpose = "standard" -> IsStandard(sku_name)
      [] purpose = "spot" -> IsSpot(sku_name)
      [] purpose = "low priority" -> IsLowPriority(sku_name)

\* FirstTier without the break: the last matching tier wins
FirstTier_LastMatch(sku_data, purpose) ==
    LET hits == {i \in 1..Len(sku_data) : TierMatches(purpose, sku_data[i][1])}
    IN IF hits = {} THEN None
       ELSE <<sku_data[CHOOSE i \in hits : \A j \in hits : i >= j][2]>>

\* a for loop over sku_data.items() that breaks at the first match: the
\* prices of that tier, or None
FirstTier(sku_data, purpose) ==
    LET hits == {i \in 1..Len(sku_data) : TierMatches(purpose, sku_data[i][1])}
    IN IF hits = {} THEN None
       ELSE <<sku_data[CHOOSE i \in hits : \A j \in hits : i <= j][2]>>

\* the price fields the three loops over the selected series set
TierFields(sku_data) ==
    LET std == FirstTier(sku_data, "standard")
        spot == FirstTier(sku_data, "spot")
        low == FirstTier(sku_data, "low priority")
    IN (IF std = None THEN EmptyDict
        ELSE [price_payg_hourly |-> Get(std[1], "payg", NA),
              price_payg_monthly |-> Get(std[1], "payg1Month", NA),
              price_payg_yearly |-> Get(std[1], "payg1Year", NA),
              price_1yr_reserved |-> Get(std[1], "1year", NA),
              price_3yr_reserved |-> Get(std[1], "3year", NA)])
       @@ (IF spot = None THEN EmptyDict
           ELSE [price_spot_hourly |-> Get(spot[1], "payg", NA),
                 price_spot_monthly |-> Get(spot[1], "payg1Month", NA)])
       @@ (IF low = None THEN EmptyDict
           ELSE [price_low_priority_hourly |-> Get(low[1], "payg", NA),
                 price_low_priority_monthly |-> Get(low[1], "payg1Month", NA)])

\* the price fields of resource r
PriceFieldsOf(r, pricing) ==
    LET pricing_by_location == Get(pricing, r.location, EmptyDict)
        pricing_by_sku == Get(pricing_by_location, r.vmSize, <<>>)
        found == FindSeries(pricing_by_sku, None, None)
        selected_series == SelectSeries(r.osType, found[1], found[2])
    IN IF selected_series # None THEN TierFields(selected_series[2]) ELSE EmptyDict

\* temp_dict of one resource
JoinRecord(r, costs, pricing, utilization) ==
    BaseFields(r, Get(costs, Lower(r.name), DefaultCost))
    @@ UtilFields(r, utilization)
    @@ PriceFieldsOf(r, pricing)

\* join_data that leaves out the resources without a price
join_data_DropsUnpriced(rs, costs, pricing, utilization) ==
    LET priced(r) == DOMAIN PriceFieldsOf(r, pricing) # {}
        kept == SelectSeq(rs, priced)
    IN [i \in 1..Len(kept) |-> JoinRecord(kept[i], costs, pricing, utilization)]

join_data(rs, costs, pricing, utilization) ==
    [i \in 1..Len(rs) |-> JoinRecord(rs[i], costs, pricing, utilization)]

\* main calls join_data with what the fetches of the scope returned.
Join ==
    /\ util_pc = "done" /\ join_pc = "ready"
    /\ joined' = join_data(resources, cost_info, pricing_data, utilization_data)
    /\ join_pc' = "done"
    /\ UNCHANGED <<fetchVars, utilVars, runVars, cost_info, pricing_data>>

-----------------------------------------------------------------------------
(* Specifications of the sampler and of the join.                          *)

\* what the metrics API answers to one request
RespOk(body) == [kind |-> "ok", status |-> 200, body |-> body]
RespTimeout == [kind |-> "timeout", status |-> 0, body |-> NoMetrics]
RespHttp(status) == [kind |-> "http", status |-> status, body |-> NoMetrics]
RespException == [kind |-> "exception", status |-> 0, body |-> NoMetrics]
\* the place of a resource that is sent no request
NoRequest == [kind |-> "unused", status |-> 0, body |-> NoMetrics]

Point(a, m) == [average |-> a, maximum |-> m]

AvgSamples == {Null, Num(5), Num(10), Num(15), Num(50), Num(75)}
MaxSamples == {Null, Num(20), Num(30), Num(40), Num(50), Num(60), Num(95)}

Points == {Point(a, m) : a \in AvgSamples, m \in MaxSamples}

\* every successful response over the sample values
RichResponses ==
    {RespOk(NoMetrics), RespOk(NoSeries), RespOk(NoData)}
    \cup {RespOk(WithData(ps)) : ps \in SeqsUpTo(Points, MaxPoints) \ {<<>>}}

\* a few responses of every kind
SmallResponses ==
    {RespOk(WithData(<<Point(Num(5), Num(20))>>)),
     RespTimeout, RespHttp(429), RespHttp(500), RespException}

\* what the cost fetch returns for a ledger of one page
CostInfoOf(rows) == Summarize(process_rows(EmptyDict, rows).st)

\* the resource lists of a scope: names are unique within a scope, whatever
\* their case
ScopeResources ==
    {rs \in SeqsUpTo(ResourceSet, MaxResources) :
        /\ Len(rs) >= 1
        /\ \A i, j \in 1..Len(rs) : i # j => Lower(rs[i].name) # Lower(rs[j].name)}

\* fetch_vm_utilization at its entry, join_data not yet called
SamplerEntry ==
    /\ util_idx = 1
    /\ util_pc = "loop"
    /\ utilization_data = EmptyDict
    /\ metric_requests = 0
    /\ got429 = FALSE
    /\ joined = <<>>
    /\ join_pc = "ready"

\* One resource with every response over the sample values, and every
\* scope with a few responses of every kind.
InitSampler ==
    /\ FetchIdle
    /\ RunIdle
    /\ SamplerEntry
    /\ \/ /\ resources = <<ResA>>
          /\ \E resp \in RichResponses : metric_api = <<resp>>
          /\ cost_info = EmptyDict
          /\ pricing_data = EmptyDict
       \/ /\ resources \in ScopeResources
          /\ metric_api \in [1..Len(resources) -> SmallResponses \cup {NoRequest}]
          /\ \A i \in 1..Len(resources) :
                (metric_api[i] = NoRequest) <=> (resources[i].id = "")
          /\ cost_info \in {EmptyDict, CostInfoOf(<<RowVM1, Row300>>)}
          /\ pricing_data \in {format_data(<<>>), format_data(<<L1Std, W1Std>>)}

NextSampler ==
    \/ SampleSkip \/ SampleOk \/ SampleTimeout \/ SampleHTTPError
    \/ SampleException \/ Join

SpecSampler == InitSampler /\ [][NextSampler]_vars

\* utilization maps fetch_vm_utilization returns
UtilMaps ==
    {EmptyDict,
     [vm1 |-> SampleOf(WithData(<<Point(Num(5), Num(20))>>))],
     [vm1 |-> NoneSample("Timeout"),
      vm2 |-> SampleOf(WithData(<<Point(Num(75), Num(50))>>))]}

\* cost maps fetch_cost_by_resource returns
CostInfos ==
    {EmptyDict, CostInfoOf(<<RowVM1, RowBig>>), CostInfoOf(<<RowVM1, Row300>>)}

\* join_data about to be called: every resource list with a few cost maps,
\* utilization maps and catalogs, and every catalog with one resource.
InitJoin ==
    /\ FetchIdle
    /\ RunIdle
    /\ metric_api = <<>> /\ util_idx = 0 /\ util_pc = "done"
    /\ metric_requests = 0 /\ got429 = FALSE
    /\ joined = <<>>
    /\ join_pc = "ready"
    /\ \/ /\ resources \in SeqsUpTo(ResourceSet, MaxResources)
          /\ cost_info \in CostInfos
          /\ utilization_data \in UtilMaps
          /\ pricing_data \in {format_data(<<>>), format_data(<<L1Std, W1Std>>)}
       \/ /\ resources \in SeqsUpTo(ResourceSet, 1)
          /\ cost_info = EmptyDict
          /\ utilization_data = EmptyDict
          /\ \E data \in SeqsUpTo(PriceRowSet, MaxPriceRows) :
                pricing_data = format_data(data)

NextJoin == Join

SpecJoin == InitJoin /\ [][NextJoin]_vars

-----------------------------------------------------------------------------
(* Properties of the sampler.                                              *)

\* the classification a recommendation text stands for
LabelOf(recommendation) ==
    CASE recommendation \in {"No metrics available", "No data points"} -> "unavailable"
      [] recommendation = "Very low utilization" -> "very-low"
      [] recommendation = "Low utilization" -> "low"
      [] recommendation = "High utilization" -> "high"
      [] recommendation = "Normal" -> "normal"
      [] recommendation = "Timeout" -> "timeout"
      [] recommendation = "Error" -> "error"
      [] OTHER -> "none"

\* the classification of (avgCpu, peakCpu), in the stated precedence
ClassOf(avgCpu, peakCpu) ==
    IF FLessInt(avgCpu, 10) /\ FLessInt(peakCpu, 30) THEN "very-low"
    ELSE IF FLessInt(avgCpu, 20) /\ FLessInt(peakCpu, 50) THEN "low"
    ELSE IF FGreaterInt(avgCpu, 70) \/ FGreaterInt(peakCpu, 90) THEN "high"
    ELSE "normal"

\* the data points of a response body, <<>> when it has no series
PointsOf(body) ==
    IF body.value = <<>> \/ body.value[1].timeseries = <<>> THEN <<>>
    ELSE body.value[1].timeseries[1].data

\* the classification of a successful response
ExpectedLabel(body) ==
    IF PointsOf(body) = <<>> \/ AvgValues(PointsOf(body)) = <<>> THEN "unavailable"
    ELSE ClassOf(AvgCpu(PointsOf(body)), PeakCpu(PointsOf(body)))

\* the resources whose metric request has been answered with a body
Sampled ==
    {i \in 1..Len(resources) :
        i < util_idx /\ resources[i].id # "" /\ metric_api[i].kind = "ok"}

\* C5: the classification of every sampled resource is a function of the
\* average and the peak of its data points alone: unavailable without a
\* series or without average samples, else very-low, low, high or normal by
\* the thresholds in that order; (5,20) is very-low, (15,40) low, (75,50)
\* high and (50,60) normal.
C5_ClassificationOfAvgAndPeak ==
    /\ \A i \in Sampled :
          /\ Lower(resources[i].name) \in DOMAIN utilization_data
          /\ LabelOf(utilization_data[Lower(resources[i].name)].recommendation)
                = ExpectedLabel(metric_api[i].body)
    /\ \A i \in Sampled :
          LET label == LabelOf(utilization_data[Lower(resources[i].name)].recommendation)
              body == metric_api[i].body
          IN /\ body = WithData(<<Point(Num(5), Num(20))>>) => label = "very-low"
             /\ body = WithData(<<Point(Num(15), Num(40))>>) => label = "low"
             /\ body = WithData(<<Point(Num(75), Num(50))>>) => label = "high"
             /\ body = WithData(<<Point(Num(50), Num(60))>>) => label = "normal"
             /\ body = WithData(<<Point(Null, Num(95))>>) => label = "unavailable"

\* two data points of averages 5 and 15 and one maximum of 20 have been
\* classified: average 10.0, peak 20.0, low
C5_Witness ==
    /\ 1 \in Sampled
    /\ metric_api[1].body = WithData(<<Point(Num(5), Num(20)), Point(Num(15), Null)>>)
    /\ utilization_data["vm1"] =
          [avg_cpu |-> Num(100), peak_cpu |-> Num(200),
           recommendation |-> "Low utilization"]

\* C10: the step in which a metric request is answered HTTP 429 changes no
\* sample, and from then on no metric request is issued and no sample
\* changes.
C10_RateLimitEndsSampling ==
    [][/\ got429' => utilization_data' = utilization_data
       /\ got429 => metric_requests' = metric_requests]_vars

\* a 429 came after a sample had been collected and before the last resource
C10_Witness ==
    /\ got429 /\ util_pc = "done"
    /\ util_idx <= Len(resources)
    /\ DOMAIN utilization_data # {}
    /\ join_pc = "done"

\* the resources whose metric request failed otherwise than by HTTP 429
FailedOtherwise ==
    {i \in 1..Len(resources) :
        /\ i < util_idx /\ resources[i].id # ""
        /\ \/ metric_api[i].kind \in {"timeout", "exception"}
           \/ metric_api[i].kind = "http" /\ metric_api[i].status # 429}

\* C11: a resource whose metric request fails otherwise than by HTTP 429
\* gets a sample with null average and peak, classified Timeout or Error;
\* the loop goes on to the next resource (it ends early only on a 429); and
\* the sample of every resource whose request succeeded is the one made of
\* its own response, whatever happened to the requests of the others.
C11_FailureStaysWithItsResource ==
    /\ \A i \in FailedOtherwise :
          /\ Lower(resources[i].name) \in DOMAIN utilization_data
          /\ utilization_data[Lower(resources[i].name)] =
                [avg_cpu |-> Null, peak_cpu |-> Null,
                 recommendation |-> IF metric_api[i].kind = "timeout"
                                    THEN "Timeout" ELSE "Error"]
    /\ \A i \in Sampled :
          /\ Lower(resources[i].name) \in DOMAIN utilization_data
          /\ utilization_data[Lower(resources[i].name)] = SampleOf(metric_api[i].body)
    /\ util_pc = "done" => (got429 \/ util_idx = Len(resources) + 1)
    /\ util_pc = "loop" => util_idx <= Len(resources)

\* the request of the second of three resources failed, and the first and
\* the third have the samples of their own responses
C11_Witness ==
    /\ util_pc = "done" /\ ~got429
    /\ Len(resources) = 3
    /\ FailedOtherwise = {2}
    /\ Sampled = {1, 3}
    /\ utilization_data[Lower(resources[1].name)].recommendation = "Very low utilization"
    /\ utilization_data[Lower(resources[2].name)].recommendation \in {"Timeout", "Error"}
    /\ utilization_data[Lower(resources[3].name)].recommendation = "Very low utilization"

-----------------------------------------------------------------------------
(* Properties of the join.                                                 *)

PriceFieldNames ==
    {"price_payg_hourly", "price_payg_monthly", "price_payg_yearly",
     "price_1yr_reserved", "price_3yr_reserved", "price_spot_hourly",
     "price_spot_monthly", "price_low_priority_hourly",
     "price_low_priority_monthly"}

\* the price fields a record carries
PricePart(rec) == [f \in DOMAIN rec \cap PriceFieldNames |-> rec[f]]

\* the catalog cell of a resource: the product series of its location and size
CellOf(r) == Get(Get(pricing_data, r.location, EmptyDict), r.vmSize, <<>>)

\* the first series of a cell, in insertion order, whose name does
\* (windows = TRUE) or does not contain "Windows"; None without one
Candidate(cell, windows) ==
    LET hits == {i \in 1..Len(cell) : Contains(cell[i][1], <<"Windows">>) = windows}
    IN IF hits = {} THEN None ELSE cell[CHOOSE i \in hits : \A j \in hits : i <= j]

\* the series a resource of the given OS is to be priced from
SeriesFor(osType, cell) ==
    IF osType = "Windows"
    THEN IF Candidate(cell, TRUE) # None THEN Candidate(cell, TRUE)
         ELSE Candidate(cell, FALSE)
    ELSE IF Candidate(cell, FALSE) # None THEN Candidate(cell, FALSE)
         ELSE Candidate(cell, TRUE)

\* C6: every record is priced from the series the resource's OS selects:
\* for a Windows resource the first series named "Windows" if there is one,
\* else the first not so named; for a Linux resource and for any other OS
\* value the first series not named "Windows" if there is one, else the
\* first so named; no price field without a series.
C6_SeriesByOs ==
    join_pc = "done" =>
        \A i \in 1..Len(resources) :
            LET series == SeriesFor(resources[i].osType, CellOf(resources[i]))
            IN PricePart(joined[i]) =
                   IF series = None THEN EmptyDict ELSE TierFields(series[2])

\* a Windows resource whose cell lists a Linux series first is priced from
\* the Windows series
C6_Witness ==
    /\ join_pc = "done"
    /\ resources = <<ResB>>
    /\ pricing_data = format_data(<<L1Std, W1Std>>)
    /\ joined[1].price_payg_hourly = Num(188)

\* C7: join_data returns one record for each resource, in inventory order.
C7_OneRecordPerResource ==
    join_pc = "done" =>
        /\ Len(joined) = Len(resources)
        /\ \A i \in 1..Len(resources) :
              /\ joined[i].name = resources[i].name
              /\ joined[i].region = resources[i].location
              /\ joined[i].vmSize = resources[i].vmSize
              /\ joined[i].osType = resources[i].osType

\* two resources are joined, the second one without cost, utilization or
\* price entry
C7_Witness ==
    /\ join_pc = "done"
    /\ resources = <<ResA, ResD>>
    /\ "vm3" \notin DOMAIN cost_info \cup DOMAIN utilization_data
    /\ DOMAIN utilization_data # {}
    /\ CellOf(ResD) = <<>> /\ CellOf(ResA) # <<>>
    /\ Len(joined) = 2

\* C8: every record carries all nine price fields, each a number or the
\* not-available marker.
C8_AllPriceFieldsPresent ==
    join_pc = "done" =>
        \A i \in 1..Len(joined) :
            /\ PriceFieldNames \subseteq DOMAIN joined[i]
            /\ \A f \in PriceFieldNames : joined[i][f][1] \in {"num", "str", "na"}

\* C9: every record carries is_new and the utilization classification,
\* whatever the sampling step returned.
C9_IsNewAndClassificationPresent ==
    join_pc = "done" =>
        \A i \in 1..Len(joined) :
            {"is_new", "utilization_status"} \subseteq DOMAIN joined[i]

-----------------------------------------------------------------------------
(* The price catalog of a scope: get_pricing_list formats the rows that    *)
(* price_sheet.main returned, and join_data prices the resources from it.  *)

\* more rows of the (eastus, D2) cell: further tiers of the Dv3 series, and
\* rows of a type or term that format_data does not route
L1Promo == PriceItem(<<"Dv3">>, <<"D2", "v3", "Promo">>, "Consumption", "", 90)
L1Spot == PriceItem(<<"Dv3">>, <<"D2", "v3", "Spot">>, "Consumption", "", 30)
L1PromoSpot == PriceItem(<<"Dv3">>, <<"D2", "v3", "Promo", "Spot">>, "Consumption", "", 25)
L1PromoLow ==
    PriceItem(<<"Dv3">>, <<"D2", "v3", "Promo", "Low", "Priority">>, "Consumption", "", 15)
L1Res5 == PriceItem(<<"Dv3">>, <<"D2", "v3">>, "Reservation", "5 Years", 999)
A2Other == PriceItem(<<"Av2">>, <<"D2", "v3">>, "SavingsPlan", "", 70)

CatalogRowSet ==
    {L1Std, L1Promo, L1Spot, L1PromoSpot, L1Low, L1PromoLow, L1Res1, L1Res5,
     L1Other, A2Other, W1Std}

\* get_pricing_list: no fetch without a region or a size; else the rows that
\* price_sheet.main returned, formatted
get_pricing_list(regions, skus, data) ==
    IF regions = <<>> \/ skus = <<>> THEN EmptyDict ELSE format_data(data)

\* main calls get_pricing_list after the price fetch has returned.
GetPricing ==
    /\ util_pc = "done" /\ join_pc = "pricing"
    /\ pricing_data' = get_pricing_list(inv_out.regions, inv_out.skus, table_data)
    /\ join_pc' = "ready"
    /\ UNCHANGED <<fetchVars, utilVars, runVars, cost_info, joined>>

\* price_sheet.main has returned data from a catalog of one page
PriceFetched(data) ==
    /\ fetcher = "price"
    /\ api = [head |-> <<data>>, tail |-> 0, endless |-> FALSE]
    /\ pc = "done"
    /\ requests = 1
    /\ failed = "none"
    /\ results = <<>>
    /\ skip_token = FALSE
    /\ stats = EmptyDict
    /\ rows_seen = <<>>
    /\ next_link = FALSE
    /\ page_count = 1
    /\ cost_out = EmptyDict
    /\ table_data = data
    /\ next_page = FALSE

\* One resource and every catalog of up to MaxPriceRows rows; and a resource
\* without region and size, for which no catalog is fetched.
InitCatalog ==
    /\ metric_api = <<>> /\ util_idx = 0 /\ util_pc = "done"
    /\ metric_requests = 0 /\ got429 = FALSE
    /\ utilization_data = EmptyDict
    /\ cost_info = EmptyDict
    /\ pricing_data = EmptyDict
    /\ joined = <<>>
    /\ join_pc = "pricing"
    /\ subscription_id = <<>> /\ subscriptions = <<>> /\ sub_idx = 0
    /\ sub_data = EmptyDict /\ main_pc = "idle"
    /\ \/ /\ resources \in {<<ResA>>, <<ResB>>}
          /\ inv_out = [resources |-> resources, skus |-> <<"D2">>,
                        regions |-> <<"eastus">>]
          /\ \E data \in SeqsUpTo(CatalogRowSet, MaxPriceRows) : PriceFetched(data)
       \/ /\ resources = <<ResD>>
          /\ inv_out = [resources |-> resources, skus |-> <<>>, regions |-> <<>>]
          /\ FetchIdle

NextCatalog == GetPricing \/ Join

SpecCatalog == InitCatalog /\ [][NextCatalog]_vars

-----------------------------------------------------------------------------
(* Properties of the price catalog.                                        *)

\* whether format_data routes the row's price into the index
Recognized(item) ==
    \/ item.type \in {"Consumption", "DevTestConsumption"}
    \/ item.type = "Reservation" /\ item.reservationTerm \in {"1 Year", "3 Years"}

\* the index of the rows without those that are not recognized
IndexOfRecognized ==
    get_pricing_list(inv_out.regions, inv_out.skus, SelectSeq(table_data, Recognized))

\* C17: a price row of a type that is none of Consumption, DevTestConsumption
\* and Reservation, or a Reservation row of a term other than 1 Year and
\* 3 Years, is ignored: the price index, and the records join_data makes
\* from it, are those of the input without that row.
C17_UnrecognizedRowsIgnored ==
    /\ join_pc \in {"ready", "done"} => pricing_data = IndexOfRecognized
    /\ join_pc = "done" =>
          joined = join_data(resources, cost_info, IndexOfRecognized, utilization_data)

\* the fields of each purpose, with the key of the tier entry each one shows
PurposeFields(purpose) ==
    CASE purpose = "standard" ->
            {<<"price_payg_hourly", "payg">>, <<"price_payg_monthly", "payg1Month">>,
             <<"price_payg_yearly", "payg1Year">>, <<"price_1yr_reserved", "1year">>,
             <<"price_3yr_reserved", "3year">>}
      [] purpose = "spot" ->
            {<<"price_spot_hourly", "payg">>, <<"price_spot_monthly", "payg1Month">>}
      [] purpose = "low priority" ->
            {<<"price_low_priority_hourly", "payg">>,
             <<"price_low_priority_monthly", "payg1Month">>}

\* whether a tier name serves a purpose
Serves(sku_name, purpose) ==
    CASE purpose = "standard" ->
            ~Contains(sku_name, <<"Spot">>) /\ ~Contains(sku_name, <<"Low", "Priority">>)
      [] purpose = "spot" -> Contains(sku_name, <<"Spot">>)
      [] purpose = "low priority" -> Contains(sku_name, <<"Low", "Priority">>)

\* C18: within the series chosen for a resource, the fields of each of the
\* three purposes come from the first tier, in insertion order, whose name
\* serves the purpose (standard: neither "Spot" nor "Low Priority" in the
\* name; spot: "Spot"; low priority: "Low Priority"), never from a later one.
C18_FirstMatchingTier ==
    join_pc = "done" =>
        \A i \in 1..Len(resources) :
            LET series == SeriesFor(resources[i].osType, CellOf(resources[i]))
            IN series # None =>
                  \A purpose \in {"standard", "spot", "low priority"} :
                      LET tiers == series[2]
                          hits == {j \in 1..Len(tiers) : Serves(tiers[j][1], purpose)}
                      IN \A fk \in PurposeFields(purpose) :
                            /\ fk[1] \in DOMAIN joined[i] <=> hits # {}
                            /\ \A j \in hits :
                                  (\A h \in hits : j <= h) =>
                                      joined[i][fk[1]] = Get(tiers[j][2], fk[2], NA)

\* a series with two standard tiers and two spot tiers is priced from the
\* first of each
C18_Witness ==
    /\ join_pc = "done"
    /\ resources = <<ResA>>
    /\ table_data \in {<<L1Promo, L1Std, L1Spot>>, <<L1PromoSpot, L1Spot, L1Std>>}
    /\ joined[1].price_payg_hourly = (IF table_data[1] = L1Promo THEN Num(90) ELSE Num(96))
    /\ joined[1].price_spot_hourly = (IF table_data[1] = L1Promo THEN Num(30) ELSE Num(25))

-----------------------------------------------------------------------------
(* Scope identifiers.  An identifier is the sequence of its runs of        *)
(* characters, each run <<kind, length>>: "hex" for 0-9 and a-f, "HEX" for *)
(* A-F, "dash" for "-", "space" for blanks, "nl" for line feeds, "other"   *)
(* for anything else.                                                      *)

GuidLower ==
    <<<<"hex", 8>>, <<"dash", 1>>, <<"hex", 4>>, <<"dash", 1>>, <<"hex", 4>>,
      <<"dash", 1>>, <<"hex", 4>>, <<"dash", 1>>, <<"hex", 12>>>>

\* the same identifier with capital letters in its second group, and another one
GuidUpper ==
    <<<<"hex", 8>>, <<"dash", 1>>, <<"hex", 2>>, <<"HEX", 2>>, <<"dash", 1>>,
      <<"hex", 4>>, <<"dash", 1>>, <<"hex", 4>>, <<"dash", 1>>, <<"hex", 12>>>>
GuidOther ==
    <<<<"HEX", 8>>, <<"dash", 1>>, <<"hex", 4>>, <<"dash", 1>>, <<"hex", 4>>,
      <<"dash", 1>>, <<"hex", 4>>, <<"dash", 1>>, <<"hex", 12>>>>

\* what a user may type between two commas
RawIds ==
    {GuidLower, GuidUpper, GuidOther,
     <<<<"space", 1>>>> \o GuidLower \o <<<<"space", 1>>>>,
     GuidLower \o <<<<"nl", 1>>>>,
     GuidLower \o <<<<"other", 1>>>>,
     <<<<"other", 1>>>> \o GuidLower,
     <<<<"hex", 7>>>> \o Tail(GuidLower),
     SubSeq(GuidLower, 1, 8) \o <<<<"hex", 13>>>>,
     SubSeq(GuidLower, 1, 4) \o <<<<"space", 1>>>> \o SubSeq(GuidLower, 5, 9),
     <<<<"hex", 32>>>>,
     <<<<"other", 4>>>>,
     <<>>}

IsBlank(run) == run[1] \in {"space", "nl"}

\* s.strip()
strip(s) ==
    LET solid == {i \in 1..Len(s) : ~IsBlank(s[i])}
    IN IF solid = {} THEN <<>>
       ELSE SubSeq(s, CHOOSE i \in solid : \A j \in solid : i <= j,
                      CHOOSE i \in solid : \A j \in solid : i >= j)

RECURSIVE IgnoreCase(_, _)
\* the runs of s with capital and small hex letters taken as one kind, as
\* re.IGNORECASE takes them
IgnoreCase(done, s) ==
    IF s = <<>> THEN done
    ELSE LET run == IF Head(s)[1] = "HEX" THEN <<"hex", Head(s)[2]>> ELSE Head(s)
         IN IF done # <<>> /\ done[Len(done)][1] = run[1]
            THEN IgnoreCase([done EXCEPT ![Len(done)] = <<run[1], @[2] + run[2]>>],
                            Tail(s))
            ELSE IgnoreCase(Append(done, run), Tail(s))

\* validate_subscription_id without the closing anchor of the pattern
validate_subscription_id_NoAnchor(s) ==
    LET runs == IgnoreCase(<<>>, s)
    IN /\ Len(runs) >= 9
       /\ SubSeq(runs, 1, 8) = SubSeq(GuidLower, 1, 8)
       /\ runs[9][1] = "hex" /\ runs[9][2] >= 12

\* validate_subscription_id: guid_pattern.match; the pattern's "$" matches
\* at the end and also before a line feed that ends the string
validate_subscription_id(s) ==
    LET runs == IgnoreCase(<<>>, s)
    IN runs = GuidLower \/ runs = GuidLower \o <<<<"nl", 1>>>>

\* the identifiers main passes on: every part of the input, stripped
SubscriptionIds == {strip(s) : s \in RawIds}

-----------------------------------------------------------------------------
(* fetch_all_resources, from the validation of the identifier to the       *)
(* formatted records.  A JSON value that may be absent is <<"str", v>> or  *)
(* <<"missing", "">>; a JSON object that may be absent or null carries the *)
(* tag t: "dict", "null" or "missing".                                     *)

Str(v) == <<"str", v>>
Missing == <<"missing", "">>

HardwareProfile(t, vmSize) == [t |-> t, vmSize |-> vmSize]
StorageProfile(t, osType) ==
    [t |-> t, osDisk |-> [t |-> IF t = "dict" THEN "dict" ELSE "missing",
                          osType |-> osType]]
Properties(t, hardwareProfile, storageProfile) ==
    [t |-> t, hardwareProfile |-> hardwareProfile, storageProfile |-> storageProfile]

NoHardware(t) == HardwareProfile(t, Missing)
NoStorage(t) == StorageProfile(t, Missing)

\* an item of the inventory API's value list
VM(id, name, location, properties) ==
    [id |-> id, name |-> name, location |-> location, properties |-> properties]

LinuxD2 == Properties("dict", HardwareProfile("dict", Str("D2")),
                      StorageProfile("dict", Str("Linux")))
WindowsD2 == Properties("dict", HardwareProfile("dict", Str("D2")),
                        StorageProfile("dict", Str("Windows")))

RawVM1 == VM(Str("/rg/VM1"), Str("VM1"), Str("eastus"), LinuxD2)
RawVm2 == VM(Str("/rg/vm2"), Str("vm2"), Str("westus"), WindowsD2)
RawNoId == VM(Missing, Str("vm4"), Str("eastus"), LinuxD2)
RawNoName == VM(Str("/rg/vm5"), Missing, Str("eastus"), LinuxD2)
RawNoProperties ==
    VM(Str("/rg/vm6"), Str("vm6"), Str("eastus"),
       Properties("missing", NoHardware("missing"), NoStorage("missing")))
RawNullProperties ==
    VM(Str("/rg/vm7"), Str("vm7"), Str("eastus"),
       Properties("null", NoHardware("missing"), NoStorage("missing")))
RawNoHardware ==
    VM(Str("/rg/vm8"), Str("vm8"), Str("eastus"),
       Properties("dict", NoHardware("missing"), StorageProfile("dict", Str("Linux"))))
RawNullStorage ==
    VM(Str("/rg/vm9"), Str("vm9"), Str("eastus"),
       Properties("dict", HardwareProfile("dict", Str("D2")), NoStorage("null")))

RawVMSet ==
    {RawVM1, RawVm2, RawNoId, RawNoName, RawNoProperties, RawNullProperties,
     RawNoHardware, RawNullStorage}

\* d.get(key, default) of a value that may be absent
StrOr(v, default) == IF v[1] = "str" THEN v[2] ELSE default

\* vm.get("properties", {}).get(child, {}).get(...): "raise" when .get is
\* called on None (AttributeError), else the string found or "N/A"
Nested(properties, child, leaf) ==
    IF properties.t = "null" THEN "raise"
    ELSE IF properties.t = "missing" THEN "N/A"
    ELSE IF child.t = "null" THEN "raise"
    ELSE IF child.t = "missing" THEN "N/A"
    ELSE leaf

vmSizeOf(vm) ==
    Nested(vm.properties, vm.properties.hardwareProfile,
           StrOr(vm.properties.hardwareProfile.vmSize, "N/A"))

osTypeOf(vm) ==
    Nested(vm.properties, vm.properties.storageProfile,
           IF vm.properties.storageProfile.osDisk.t = "null" THEN "raise"
           ELSE IF vm.properties.storageProfile.osDisk.t = "missing" THEN "N/A"
           ELSE StrOr(vm.properties.storageProfile.osDisk.osType, "N/A"))

\* whether the loop body raises for vm: the AttributeError of None.get is
\* not among the exceptions the loop catches
Raises(vm) == vmSizeOf(vm) = "raise" \/ osTypeOf(vm) = "raise"

\* the ResourceRecord appended for vm
RecordOf(vm) ==
    [id |-> StrOr(vm.id, ""), name |-> StrOr(vm.name, "Unknown"),
     location |-> StrOr(vm.location, "N/A"),
     vmSize |-> vmSizeOf(vm), osType |-> osTypeOf(vm)]

InSeq(v, seq) == \E i \in 1..Len(seq) : seq[i] = v

\* one pass of the formatting loop
FormatVM(out, vm) ==
    IF Raises(vm) THEN [out EXCEPT !.raised = TRUE]
    ELSE LET rec == RecordOf(vm)
         IN [raised |-> FALSE,
             resources |-> Append(out.resources, rec),
             regions |-> IF ~InSeq(rec.location, out.regions) /\ rec.location # "N/A"
                         THEN Append(out.regions, rec.location) ELSE out.regions,
             skus |-> IF ~InSeq(rec.vmSize, out.skus) /\ rec.vmSize # "N/A"
                      THEN Append(out.skus, rec.vmSize) ELSE out.skus]

RECURSIVE FormatVMs(_, _)
\* the formatting loop, left at the first item that raises
FormatVMs(out, vms) ==
    IF vms = <<>> \/ out.raised THEN out
    ELSE FormatVMs(FormatVM(out, Head(vms)), Tail(vms))

\* fetch_all_resources after its request loop: [raised, resources, skus, regions]
FormatResults(raw) ==
    FormatVMs([raised |-> FALSE, resources |-> <<>>, skus |-> <<>>, regions |-> <<>>],
              raw)

\* the three lists of a result
Returned(out) ==
    [resources |-> out.resources, skus |-> out.skus, regions |-> out.regions]

\* The identifier is validated before anything else.
InvValidate ==
    /\ fetcher = "inventory" /\ pc = "entry"
    /\ IF validate_subscription_id(subscription_id)
       THEN pc' = "loop" /\ UNCHANGED inv_out
       ELSE pc' = "returned" /\ inv_out' = EmptyResult
    /\ UNCHANGED <<api, fetcher, requests, failed, results, skip_token, stats,
                   rows_seen, next_link, page_count, cost_out, table_data, next_page>>
    /\ UNCHANGED <<utilVars, joinVars>>
    /\ UNCHANGED <<subscription_id, subscriptions, sub_idx, sub_data, main_pc>>

\* After the request loop: the items are formatted and returned.
InvFormat ==
    /\ fetcher = "inventory" /\ pc = "done"
    /\ LET out == FormatResults(results)
       IN IF out.raised
          THEN pc' = "raised" /\ UNCHANGED inv_out
          ELSE pc' = "returned" /\ inv_out' = Returned(out)
    /\ UNCHANGED <<api, fetcher, requests, failed, results, skip_token, stats,
                   rows_seen, next_link, page_count, cost_out, table_data, next_page>>
    /\ UNCHANGED <<utilVars, joinVars>>
    /\ UNCHANGED <<subscription_id, subscriptions, sub_idx, sub_data, main_pc>>

\* the pages of the inventory scenarios
RawPages ==
    {<<>>, <<RawVM1, RawVm2>>, <<RawNoName, RawVM1>>, <<RawVM1, RawNullProperties>>}
    \cup {<<vm>> : vm \in RawVMSet}

\* fetch_all_resources is called with a stripped identifier, against an
\* inventory of up to MaxHeadPages pages.
InitInventory ==
    /\ ScopeIdle
    /\ subscriptions = <<>> /\ sub_idx = 0 /\ sub_data = EmptyDict /\ main_pc = "idle"
    /\ subscription_id \in SubscriptionIds
    /\ inv_out = EmptyResult
    /\ fetcher = "inventory" /\ pc = "entry"
    /\ requests = 0 /\ failed = "none" /\ results = <<>> /\ skip_token = FALSE
    /\ stats = EmptyDict /\ rows_seen = <<>> /\ next_link = FALSE
    /\ page_count = 0 /\ cost_out = EmptyDict /\ table_data = <<>>
    /\ next_page = FALSE
    /\ \E h \in SeqsUpTo(RawPages, MaxHeadPages) :
          /\ Len(h) >= 1
          /\ api = [head |-> h, tail |-> 0, endless |-> FALSE]

NextInventory == InvValidate \/ InvRequestOk \/ InvRequestFail \/ InvFormat

SpecInventory == InitInventory /\ [][NextInventory]_vars

-----------------------------------------------------------------------------
(* Properties of fetch_all_resources.                                      *)

\* an identifier of the GUID shape: groups of 8, 4, 4, 4 and 12 hex digits
\* of either case, joined by single dashes, and nothing else
IsGuid(s) ==
    LET runs == IgnoreCase(<<>>, s)
    IN /\ Len(runs) = 9
       /\ \A i \in {2, 4, 6, 8} : runs[i] = <<"dash", 1>>
       /\ \A i \in {1, 3, 5, 7, 9} : runs[i][1] = "hex"
       /\ <<runs[1][2], runs[3][2], runs[5][2], runs[7][2], runs[9][2]>>
             = <<8, 4, 4, 4, 12>>

\* C12: fetch_all_resources called with an identifier that is not of the
\* GUID shape issues no request, raises nothing and returns the empty
\* result.
C12_InvalidIdentifierNoRequest ==
    ~IsGuid(subscription_id) =>
        /\ requests = 0
        /\ pc \in {"entry", "returned"}
        /\ pc = "returned" => inv_out = EmptyResult

\* a call with a GUID followed by one more character has returned the empty
\* result without a request, though the inventory holds items
C12_Witness ==
    /\ subscription_id = GuidLower \o <<<<"other", 1>>>>
    /\ pc = "returned" /\ requests = 0
    /\ inv_out = EmptyResult
    /\ api.head[1] # <<>>

\* an item with id, name and the three nested objects
WellFormed(vm) ==
    /\ vm.id[1] = "str" /\ vm.name[1] = "str"
    /\ vm.properties.t = "dict"
    /\ vm.properties.hardwareProfile.t = "dict"
    /\ vm.properties.storageProfile.t = "dict"

\* C15: an inventory item without id or name, or whose properties,
\* hardwareProfile or storageProfile is missing or null, yields no record and
\* is never fatal: the call raises nothing and returns the records of the
\* well-formed items of all pages, in order.
C15_MalformedItemsSkipped ==
    /\ pc # "raised"
    /\ (pc = "returned" /\ failed = "none" /\ requests > 0) =>
          LET good == SelectSeq(results, WellFormed)
          IN inv_out.resources = [i \in 1..Len(good) |-> RecordOf(good[i])]

-----------------------------------------------------------------------------
(* main: the loop over the scopes of the run.  A scope is its identifier   *)
(* and what the four APIs answer for it: each primary fetch is answered    *)
(* with one page, or fails with one of FailKinds; every metric request of  *)
(* the scope gets the same response.                                       *)

\* what an API answers to the first request of a fetch
Answer(kind, value) == [kind |-> kind, value |-> value]

Scope(id, inventory, cost, metrics, prices) ==
    [id |-> id, inventory |-> inventory, cost |-> cost, metrics |-> metrics,
     prices |-> prices]

\* fetch_all_resources as a call: [raised, resources, skus, regions]
fetch_all_resources(id, inventory) ==
    IF ~validate_subscription_id(id) THEN [raised |-> FALSE] @@ EmptyResult
    ELSE IF inventory.kind # "ok" THEN [raised |-> FALSE] @@ EmptyResult
    ELSE IF inventory.value = <<>> THEN [raised |-> FALSE] @@ EmptyResult
    ELSE FormatResults(inventory.value)

\* fetch_cost_by_resource as a call: [raised, value]
fetch_cost_by_resource(cost) ==
    IF cost.kind # "ok" THEN [raised |-> FALSE, value |-> EmptyDict]
    ELSE LET r == process_rows(EmptyDict, cost.value)
         IN IF r.ok THEN [raised |-> FALSE, value |-> Summarize(r.st)]
            ELSE [raised |-> TRUE, value |-> EmptyDict]

RECURSIVE SampleAll(_, _, _)
\* the for loop of fetch_vm_utilization over the resources rs
SampleAll(data, rs, resp) ==
    IF rs = <<>> THEN data
    ELSE LET vm == Head(rs)
             key == Lower(vm.name)
         IN IF vm.id = "" THEN SampleAll(data, Tail(rs), resp)
            ELSE IF resp.kind = "ok"
            THEN SampleAll(Put(data, key, SampleOf(resp.body)), Tail(rs), resp)
            ELSE IF resp.kind = "timeout"
            THEN SampleAll(Put(data, key, NoneSample("Timeout")), Tail(rs), resp)
            ELSE IF resp.kind = "http"
            THEN LET r == OnHTTPError(resp.status, data, key)
                 IN IF r.stop THEN r.data ELSE SampleAll(r.data, Tail(rs), resp)
            ELSE SampleAll(Put(data, key, NoneSample("Error")), Tail(rs), resp)

\* fetch_vm_utilization as a call
fetch_vm_utilization(rs, resp) == SampleAll(EmptyDict, rs, resp)

\* what price_sheet.main returns: the rows of the page, or [] on a failure
PriceRowsOf(prices) == IF prices.kind = "ok" THEN prices.value ELSE <<>>

\* the body of the try of main's loop: [outcome, joined]
ProcessScope(scope) ==
    LET inv == fetch_all_resources(scope.id, scope.inventory)
    IN IF inv.raised THEN [outcome |-> "raised", joined |-> <<>>]
       ELSE IF inv.resources = <<>> THEN [outcome |-> "skipped", joined |-> <<>>]
       ELSE LET costs == fetch_cost_by_resource(scope.cost)
            IN IF costs.raised THEN [outcome |-> "raised", joined |-> <<>>]
               ELSE LET utilization == fetch_vm_utilization(inv.resources,
                                                            scope.metrics)
                        pricing_list == get_pricing_list(inv.regions, inv.skus,
                                                         PriceRowsOf(scope.prices))
                    IN [outcome |-> "joined",
                        joined |-> join_data(inv.resources, costs.value,
                                             pricing_list, utilization)]

\* AfterScope with the exception of a scope leaving main
AfterScope_Reraises(outcome, idx, n) ==
    IF outcome = "raised" THEN "exit" ELSE IF idx < n THEN "loop" ELSE "after"

\* where main stands after the scope at idx of n: `continue` and
\* `except Exception: continue` both go on with the loop
AfterScope(outcome, idx, n) == IF idx < n THEN "loop" ELSE "after"

\* One iteration of the loop over the scopes.
MainScope ==
    /\ main_pc = "loop"
    /\ sub_idx \in 1..Len(subscriptions)
    /\ LET scope == subscriptions[sub_idx]
           r == ProcessScope(scope)
       IN /\ sub_data' = IF r.outcome = "joined"
                         THEN Put(sub_data, scope.id, r.joined) ELSE sub_data
          /\ main_pc' = AfterScope(r.outcome, sub_idx, Len(subscriptions))
    /\ sub_idx' = sub_idx + 1
    /\ UNCHANGED <<fetchVars, utilVars, joinVars, subscription_id, inv_out,
                   subscriptions>>

\* After the loop: no data from any scope ends the process, else the report
\* is generated.
MainFinish ==
    /\ main_pc = "after"
    /\ main_pc' = IF DOMAIN sub_data = {} THEN "exit" ELSE "report"
    /\ UNCHANGED <<fetchVars, utilVars, joinVars, subscription_id, inv_out,
                   subscriptions, sub_idx, sub_data>>

\* the identifiers of the runs: two of the GUID shape, one that is not
RunIds == {GuidLower, GuidOther, GuidLower \o <<<<"other", 1>>>>}

OkInventory == Answer("ok", <<RawVM1, RawVm2>>)
OkCost == Answer("ok", <<RowVM1, Row300>>)
OkMetrics == RespOk(WithData(<<Point(Num(5), Num(20))>>))
OkPrices == Answer("ok", <<L1Std, W1Std>>)

\* what the APIs may answer for a scope: everything in order, or one thing
\* that fails, is empty or is malformed
Environments ==
    {<<OkInventory, OkCost, OkMetrics, OkPrices>>}
    \cup {<<Answer(k, <<>>), OkCost, OkMetrics, OkPrices>> : k \in FailKinds}
    \cup {<<Answer("ok", vms), OkCost, OkMetrics, OkPrices>> :
             vms \in {<<>>, <<RawVM1>>, <<RawNoName, RawVM1>>,
                      <<RawVM1, RawNullProperties>>}}
    \cup {<<OkInventory, cost, OkMetrics, OkPrices>> :
             cost \in {Answer("timeout", <<>>), Answer("ok", <<RowVM1, RowNullId>>)}}
    \cup {<<OkInventory, OkCost, resp, OkPrices>> :
             resp \in {RespTimeout, RespHttp(429)}}
    \cup {<<OkInventory, OkCost, OkMetrics, Answer("network", <<>>)>>}

ScopeSet ==
    {Scope(id, e[1], e[2], e[3], e[4]) : id \in RunIds, e \in Environments}

\* main has read its input: one scope at least, the identifiers stripped.
InitMain ==
    /\ FetchIdle
    /\ ScopeIdle
    /\ subscription_id = <<>>
    /\ inv_out = EmptyResult
    /\ subscriptions \in SeqsUpTo(ScopeSet, MaxScopes)
    /\ Len(subscriptions) >= 1
    /\ sub_idx = 1
    /\ sub_data = EmptyDict
    /\ main_pc = "loop"

NextMain == MainScope \/ MainFinish

SpecMain == InitMain /\ [][NextMain]_vars

-----------------------------------------------------------------------------
(* Properties of main.                                                     *)

\* the scopes the loop has gone through
Processed == 1..(sub_idx - 1)

\* no item of the inventory and no row of the ledger is malformed
CleanData(scope) ==
    /\ \A i \in 1..Len(scope.inventory.value) : WellFormed(scope.inventory.value[i])
    /\ \A i \in 1..Len(scope.cost.value) :
          Len(scope.cost.value[i]) >= 3 /\ scope.cost.value[i][3] # Null

\* a scope with an identifier of the GUID shape, an inventory that answers
\* with VMs, and no failure of its own
GoodScope(scope) ==
    /\ IsGuid(scope.id)
    /\ scope.inventory.kind = "ok" /\ scope.inventory.value # <<>>
    /\ scope.cost.kind = "ok" /\ scope.metrics.kind = "ok"
    /\ scope.prices.kind = "ok"
    /\ CleanData(scope)

\* records is a list of joined records of the scope: one for each VM of its
\* inventory, in order
RecordsOfScope(records, scope) ==
    /\ Len(records) = Len(scope.inventory.value)
    /\ \A k \in 1..Len(records) :
          /\ records[k].name = scope.inventory.value[k].name[2]
          /\ records[k].region = scope.inventory.value[k].location[2]

\* C13: whatever happens to one scope (rejected identifier, failed fetch,
\* exception), main goes on: it leaves the loop only when every scope of the
\* list has been processed, and every processed scope with a valid
\* identifier, a non-empty inventory and no failure of its own has an entry
\* in sub_data under its identifier: its joined records, unless the same
\* identifier was processed once more after it.
C13_FailureOfOneScopeStaysThere ==
    /\ main_pc # "loop" => sub_idx = Len(subscriptions) + 1
    /\ \A i \in Processed :
          GoodScope(subscriptions[i]) =>
              /\ subscriptions[i].id \in DOMAIN sub_data
              /\ (\A j \in Processed : j > i => subscriptions[j].id # subscriptions[i].id)
                    => RecordsOfScope(sub_data[subscriptions[i].id], subscriptions[i])

\* the first scope raised an exception in its inventory, the second one is
\* in the output and the report is generated
C13_Witness ==
    /\ main_pc = "report"
    /\ Len(subscriptions) = 2
    /\ subscriptions[1].inventory.value = <<RawVM1, RawNullProperties>>
    /\ IsGuid(subscriptions[1].id)
    /\ GoodScope(subscriptions[2])
    /\ subscriptions[2].id # subscriptions[1].id
    /\ DOMAIN sub_data = {subscriptions[2].id}

\* C14: every processed scope whose identifier is of the GUID shape has an
\* entry in sub_data, whichever of its fetches failed by timeout, connection
\* failure or HTTP error; only a scope with an invalid identifier has none.
C14_ValidScopeAlwaysInOutput ==
    \A i \in Processed :
        LET scope == subscriptions[i]
        IN CleanData(scope) =>
              (IsGuid(scope.id) <=> scope.id \in DOMAIN sub_data)

=============================================================================
